---- MODULE Spec2Model ----
(***************************************************************************)
(* predict.py: a command-line script that loads a pickled model, builds a  *)
(* one-row feature frame from two arguments and prints the prediction as   *)
(* JSON.  The model follows the script statement by statement.  The state  *)
(* starts after the unconditional imports of lines 1-6.                    *)
(*                                                                         *)
(* Strings are sequences of one-character strings, so that parsing and     *)
(* hashing work on the characters.  Time is counted in seconds (pandas     *)
(* counts nanoseconds; no input here carries a finer unit than a second).  *)
(***************************************************************************)
EXTENDS Integers, Sequences, FiniteSets, TLC

VARIABLES
    installed,          \* third-party libraries importable in this environment
    disk,               \* state of Model/xgb_model.pkl on disk
    argv,               \* sys.argv[1:], the command-line arguments
    runNo,              \* number of the current invocation of the script
    prev,               \* what the previous invocation built and printed
    hashSeed,           \* the interpreter's string-hash seed of this invocation
    pc,                 \* the statement the script is at
    steps,              \* the steps executed so far, in order
    model,              \* the unpickled model object
    ticker,             \* line 27
    start_date,         \* line 28
    ticker_numeric,     \* line 33
    start_date_numeric, \* line 36
    input_data,         \* line 53: the DataFrame, a sequence of rows
    stdout,             \* documents written to standard output
    stderr,             \* documents written to standard error
    exitCode,           \* the process's exit status once it has ended
    fileOpens,          \* number of times the model file was opened
    predictCalls        \* number of calls of model.predict

envVars == <<installed, disk, argv>>
runVars == <<hashSeed, pc, steps, model, ticker, start_date, ticker_numeric,
             start_date_numeric, input_data, stdout, stderr, exitCode,
             fileOpens, predictCalls>>
vars == <<installed, disk, argv, runNo, prev, hashSeed, pc, steps, model,
          ticker, start_date, ticker_numeric, start_date_numeric, input_data,
          stdout, stderr, exitCode, fileOpens, predictCalls>>

----------------------------------------------------------------------------
(* Bounds *)

MaxRuns == 2
NumSeeds == 2

----------------------------------------------------------------------------
(* Characters and numbers *)

Digits == {"0", "1", "2", "3", "4", "5", "6", "7", "8", "9"}

DigitVal(c) ==
    CASE c = "0" -> 0 [] c = "1" -> 1 [] c = "2" -> 2 [] c = "3" -> 3
      [] c = "4" -> 4 [] c = "5" -> 5 [] c = "6" -> 6 [] c = "7" -> 7
      [] c = "8" -> 8 [] c = "9" -> 9

\* ord(c) of the characters the tickers below are written with.
Ord(c) ==
    CASE c = "A" -> 65 [] c = "F" -> 70 [] c = "L" -> 76 [] c = "M" -> 77
      [] c = "P" -> 80 [] c = "S" -> 83 [] c = "T" -> 84
      [] OTHER -> 63

AllDigits(s, i, j) == \A k \in i..j : s[k] \in Digits

RECURSIVE Num(_, _, _)
\* int(s[i..j]) for a run of digits.
Num(s, i, j) == IF j < i THEN 0 ELSE 10 * Num(s, i, j - 1) + DigitVal(s[j])

Abs(n) == IF n < 0 THEN 0 - n ELSE n

----------------------------------------------------------------------------
(* hash(ticker), line 33 *)

HashModulus == 100000000

RECURSIVE Mix(_, _, _)
Mix(seed, s, i) ==
    IF i = 0 THEN seed * 7919 + 5381
    ELSE (Mix(seed, s, i - 1) * 31 + Ord(s[i])) % 1048576

\* CPython's str hash is a keyed hash (SipHash) whose key is drawn per
\* process unless PYTHONHASHSEED fixes it; the hash of the empty string is 0
\* for every key.  Mix stands for the keyed function: a signed value that
\* depends on the seed and on every character.
Hash(seed, s) ==
    IF s = <<>> THEN 0 ELSE Mix(seed, s, Len(s)) * 2039 - 1000000000

TickerNumericUnbounded(seed, s) == Abs(Hash(seed, s))

TickerNumeric(seed, s) == Abs(Hash(seed, s)) % HashModulus

----------------------------------------------------------------------------
(* pd.to_datetime, pd.Timestamp, pd.Timedelta, line 36 *)

SecondsPerDay == 86400

IsLeap(y) == (y % 4 = 0 /\ y % 100 # 0) \/ y % 400 = 0

DaysInMonth(y, m) ==
    CASE m \in {1, 3, 5, 7, 8, 10, 12} -> 31
      [] m \in {4, 6, 9, 11} -> 30
      [] OTHER -> IF IsLeap(y) THEN 29 ELSE 28

RECURSIVE DaysBeforeMonth(_, _)
DaysBeforeMonth(y, m) ==
    IF m <= 1 THEN 0 ELSE DaysBeforeMonth(y, m - 1) + DaysInMonth(y, m - 1)

\* Proleptic Gregorian ordinal: 1 for 0001-01-01.
Ordinal(y, m, d) ==
    365 * (y - 1) + ((y - 1) \div 4) - ((y - 1) \div 100) + ((y - 1) \div 400)
    + DaysBeforeMonth(y, m) + d

NaT == [kind |-> "nat", tz |-> FALSE, value |-> 0]
ParseError == [kind |-> "error", tz |-> FALSE, value |-> 0]

HasIsoDate(s) ==
    /\ Len(s) >= 10
    /\ AllDigits(s, 1, 4) /\ s[5] = "-"
    /\ AllDigits(s, 6, 7) /\ s[8] = "-"
    /\ AllDigits(s, 9, 10)
    /\ Num(s, 6, 7) \in 1..12
    /\ Num(s, 9, 10) \in 1..DaysInMonth(Num(s, 1, 4), Num(s, 6, 7))

HasIsoTime(s) ==
    /\ Len(s) >= 19
    /\ s[11] \in {" ", "T"}
    /\ AllDigits(s, 12, 13) /\ s[14] = ":"
    /\ AllDigits(s, 15, 16) /\ s[17] = ":"
    /\ AllDigits(s, 18, 19)
    /\ Num(s, 12, 13) \in 0..23
    /\ Num(s, 15, 16) \in 0..59
    /\ Num(s, 18, 19) \in 0..59

SecondOfDay(s) ==
    3600 * Num(s, 12, 13) + 60 * Num(s, 15, 16) + Num(s, 18, 19)

\* Seconds from 1970-01-01T00:00:00 to the civil date and time written in s.
CivilSeconds(s, withTime) ==
    (Ordinal(Num(s, 1, 4), Num(s, 6, 7), Num(s, 9, 10)) - Ordinal(1970, 1, 1))
        * SecondsPerDay
    + (IF withTime THEN SecondOfDay(s) ELSE 0)

\* pd.to_datetime(s) for a scalar string: the empty string and "NaT" give
\* NaT without raising; an ISO 8601 date, with or without a time of day and
\* a trailing Z, gives a Timestamp (timezone-aware with the Z); anything
\* else gives onFail.
ParseWith(s, onFail) ==
    IF s = <<>> \/ s = <<"N", "a", "T">> THEN NaT
    ELSE IF HasIsoDate(s) /\ Len(s) = 10
        THEN [kind |-> "ts", tz |-> FALSE, value |-> CivilSeconds(s, FALSE)]
    ELSE IF HasIsoDate(s) /\ HasIsoTime(s) /\ Len(s) = 19
        THEN [kind |-> "ts", tz |-> FALSE, value |-> CivilSeconds(s, TRUE)]
    ELSE IF HasIsoDate(s) /\ HasIsoTime(s) /\ Len(s) = 20 /\ s[20] = "Z"
        THEN [kind |-> "ts", tz |-> TRUE, value |-> CivilSeconds(s, TRUE)]
    ELSE onFail

\* to_datetime(s, errors="coerce"): NaT where the default raises.
ToDatetimeCoerce(s) == ParseWith(s, NaT)

\* to_datetime(s) with the default errors="raise".
ToDatetime(s) == ParseWith(s, ParseError)

\* pd.Timestamp("1970-01-01")
EpochString == <<"1", "9", "7", "0", "-", "0", "1", "-", "0", "1">>
Epoch == ToDatetime(EpochString)

\* pd.Timedelta("1D")
Timedelta1D == SecondsPerDay

\* Division that rounds toward zero, as C's / does.
TruncDiv(a, b) == IF a >= 0 THEN a \div b ELSE 0 - ((0 - a) \div b)

FloorDivTruncating(delta, unit) == TruncDiv(delta, unit)

\* Timedelta // Timedelta: floor division, an int.
FloorDiv(delta, unit) == delta \div unit

----------------------------------------------------------------------------
(* Documents on the output streams *)

NoMessage == [prefix |-> "", detail |-> <<>>]

\* json.dumps({'error': msg})
JsonError(msg) ==
    [fmt |-> "json", keys |-> <<"error">>, error |-> msg,
     ticker |-> <<>>, start_date |-> <<>>, prediction |-> <<>>]

\* The traceback the interpreter prints for an exception nothing catches.
Traceback(exc) ==
    [fmt |-> "traceback", keys |-> <<>>,
     error |-> [prefix |-> exc, detail |-> <<>>],
     ticker |-> <<>>, start_date |-> <<>>, prediction |-> <<>>]

\* The document of line 61 with the fields of the date reduced to its first
\* ten characters, as if the parsed date were printed back.
ResultDocumentNormalised(t, d, p) ==
    [fmt |-> "json", keys |-> <<"ticker", "start_date", "prediction">>,
     error |-> NoMessage, ticker |-> t,
     start_date |-> IF Len(d) > 10 THEN SubSeq(d, 1, 10) ELSE d,
     prediction |-> p]

\* json.dumps({'ticker': ticker, 'start_date': start_date,
\*             'prediction': prediction.tolist()})
ResultDocument(t, d, p) ==
    [fmt |-> "json", keys |-> <<"ticker", "start_date", "prediction">>,
     error |-> NoMessage, ticker |-> t, start_date |-> d, prediction |-> p]

\* os.path.join(os.path.dirname(__file__), 'Model', 'xgb_model.pkl')
model_path == <<"Model", "xgb_model.pkl">>

MissingLibraryMessage ==
    [prefix |-> "Required module xgboost is not installed. Please install it using \"pip install xgboost\".",
     detail |-> <<>>]

ModelNotFoundMessageNoPath ==
    [prefix |-> "Model file not found", detail |-> <<>>]

ModelNotFoundMessage ==
    [prefix |-> "Model file not found at ", detail |-> model_path]

PreprocessMessage(e) ==
    [prefix |-> "Failed to preprocess inputs: ", detail |-> <<e>>]

PredictMessage(e) == [prefix |-> "", detail |-> <<e>>]

----------------------------------------------------------------------------
(* The feature frame, lines 40-53, and the model's answer, line 60 *)

Cell(name, n) == [name |-> name, dtype |-> "int64", nan |-> FALSE, val |-> n]

\* A column holding NaN: pandas stores it as float64.
NanCell(name) == [name |-> name, dtype |-> "float64", nan |-> TRUE, val |-> 0]

NoNumber == [nan |-> FALSE, val |-> 0]

DateCell(sdn) == IF sdn.nan THEN NanCell("start_date") ELSE Cell("start_date", sdn.val)

\* The dict of lines 40-52; a dict keeps its keys in insertion order.
Features(tn, sdn) ==
    <<Cell("ticker", tn), DateCell(sdn),
      Cell("feature_1", 0), Cell("feature_2", 0), Cell("feature_3", 0),
      Cell("feature_4", 0), Cell("feature_5", 0), Cell("feature_6", 0),
      Cell("feature_7", 0), Cell("feature_8", 0)>>

\* pd.DataFrame([features]): one row.
DataFrame(features) == <<features>>

RECURSIVE RowSum(_, _)
RowSum(row, i) ==
    IF i = 0 THEN 0
    ELSE RowSum(row, i - 1) + (IF row[i].nan THEN 0 ELSE row[i].val)

\* model.predict(data).tolist() for a model that answers: one value per row,
\* a function of the row's cells (a missing cell counts for nothing).  The
\* pickled model is opaque to the script; this stands for any regressor
\* whose answer depends on its features.
PredictRow(row) == RowSum(row, Len(row)) % 1000

RECURSIVE Predict(_, _)
Predict(data, i) ==
    IF i = 0 THEN <<>> ELSE Append(Predict(data, i - 1), PredictRow(data[i]))

----------------------------------------------------------------------------
(* Inputs *)

Seeds == 0..(NumSeeds - 1)

Libraries == {"xgboost"}

\* What the model file can be: absent; present but unreadable; readable
\* but not a pickle; a pickled model that answers ("regressor"), whose
\* predict raises ("raising"), or whose result cannot be turned into a
\* JSON list ("unserialisable").
Pickled == {"garbage", "regressor", "raising", "unserialisable"}

DiskStates ==
    {[exists |-> FALSE, readable |-> FALSE, pickled |-> "garbage"],
     [exists |-> TRUE, readable |-> FALSE, pickled |-> "garbage"]}
    \cup {[exists |-> TRUE, readable |-> TRUE, pickled |-> k] : k \in Pickled}

Tickers ==
    {<<>>,
     <<"A", "A", "P", "L">>,
     <<"M", "S", "F", "T">>}

StartDates ==
    {<<"1", "9", "7", "0", "-", "0", "1", "-", "0", "1">>,
     <<"1", "9", "7", "0", "-", "0", "1", "-", "0", "2">>,
     <<"1", "9", "6", "9", "-", "1", "2", "-", "3", "1">>,
     <<"1", "9", "6", "9", "-", "1", "2", "-", "3", "1", " ",
       "1", "2", ":", "0", "0", ":", "0", "0">>,
     <<"1", "9", "7", "0", "-", "0", "1", "-", "0", "2", "T",
       "2", "3", ":", "5", "9", ":", "5", "9">>,
     <<"1", "9", "7", "2", "-", "0", "2", "-", "2", "9">>,
     <<"2", "0", "2", "3", "-", "0", "1", "-", "0", "1">>,
     <<"1", "9", "7", "0", "-", "0", "1", "-", "0", "1", "T",
       "0", "0", ":", "0", "0", ":", "0", "0", "Z">>,
     <<"2", "0", "2", "3", "-", "0", "2", "-", "3", "0">>,
     <<"n", "o", "t", "-", "a", "-", "d", "a", "t", "e">>,
     <<"N", "a", "T">>,
     <<>>}

ExtraArgument == <<"x">>

\* sys.argv[1:]: no argument, one, two, or a third that the script ignores.
ArgVectors ==
    {<<>>}
    \cup {<<t>> : t \in Tickers}
    \cup {<<t, d>> : t \in Tickers, d \in StartDates}
    \cup {<<t, d, ExtraArgument>> : t \in Tickers, d \in {EpochString}}

----------------------------------------------------------------------------
(* The script *)

NoModel == "none"
NoExit == 0 - 1
NoRun ==
    [valid |-> FALSE, built |-> FALSE, input_data |-> <<>>, stdout |-> <<>>,
     stderr |-> <<>>, exitCode |-> NoExit]

\* The order of the statements: each step's successor when it succeeds.
SuccessorArgsFirst(step) ==
    CASE step = "depcheck" -> "argv"
      [] step = "argv" -> "exists"
      [] step = "exists" -> "load"
      [] step = "load" -> "features"
      [] step = "features" -> "predict"
      [] step = "predict" -> "done"

Successor(step) ==
    CASE step = "depcheck" -> "exists"
      [] step = "exists" -> "load"
      [] step = "load" -> "argv"
      [] step = "argv" -> "features"
      [] step = "features" -> "predict"
      [] step = "predict" -> "done"

FreshRun(seed) ==
    /\ hashSeed' = seed
    /\ pc' = "depcheck"
    /\ steps' = <<>>
    /\ model' = NoModel
    /\ ticker' = <<>>
    /\ start_date' = <<>>
    /\ ticker_numeric' = 0 - 1
    /\ start_date_numeric' = NoNumber
    /\ input_data' = <<>>
    /\ stdout' = <<>>
    /\ stderr' = <<>>
    /\ exitCode' = NoExit
    /\ fileOpens' = 0
    /\ predictCalls' = 0

Init ==
    /\ installed \in SUBSET Libraries
    /\ disk \in DiskStates
    /\ argv \in ArgVectors
    /\ runNo = 1
    /\ prev = NoRun
    /\ hashSeed \in Seeds
    /\ pc = "depcheck"
    /\ steps = <<>>
    /\ model = NoModel
    /\ ticker = <<>>
    /\ start_date = <<>>
    /\ ticker_numeric = 0 - 1
    /\ start_date_numeric = NoNumber
    /\ input_data = <<>>
    /\ stdout = <<>>
    /\ stderr = <<>>
    /\ exitCode = NoExit
    /\ fileOpens = 0
    /\ predictCalls = 0

\* print(json.dumps({'error': msg})) without file=sys.stderr.
PrintErrorToStdout(msg) ==
    /\ stdout' = Append(stdout, JsonError(msg))
    /\ UNCHANGED stderr

\* print(json.dumps({'error': msg}), file=sys.stderr)
PrintError(msg) ==
    /\ stderr' = Append(stderr, JsonError(msg))
    /\ UNCHANGED stdout

\* sys.exit(code)
SysExit(code) ==
    /\ exitCode' = code
    /\ pc' = "done"

\* An exception nothing catches: the interpreter prints the traceback on
\* standard error and the process ends with status 1.
Uncaught(exc) ==
    /\ stderr' = Append(stderr, Traceback(exc))
    /\ UNCHANGED stdout
    /\ SysExit(1)

\* Lines 8-12.
DependencyCheck ==
    /\ pc = "depcheck"
    /\ steps' = Append(steps, "depcheck")
    /\ IF "xgboost" \in installed
         THEN /\ pc' = Successor("depcheck")
              /\ UNCHANGED <<stdout, stderr, exitCode>>
         ELSE /\ PrintError(MissingLibraryMessage)
              /\ SysExit(1)
    /\ UNCHANGED <<envVars, runNo, prev, hashSeed, model, ticker, start_date,
                   ticker_numeric, start_date_numeric, input_data, fileOpens,
                   predictCalls>>

\* Lines 15-20.
ModelExists ==
    /\ pc = "exists"
    /\ steps' = Append(steps, "exists")
    /\ IF disk.exists
         THEN /\ pc' = Successor("exists")
              /\ UNCHANGED <<stdout, stderr, exitCode>>
         ELSE /\ PrintError(ModelNotFoundMessage)
              /\ SysExit(1)
    /\ UNCHANGED <<envVars, runNo, prev, hashSeed, model, ticker, start_date,
                   ticker_numeric, start_date_numeric, input_data, fileOpens,
                   predictCalls>>

\* Lines 23-24: open() raises on a file that cannot be read, pickle.load on
\* one that is no pickle; neither is inside a try.
LoadModel ==
    /\ pc = "load"
    /\ steps' = Append(steps, "load")
    /\ IF ~disk.readable
         THEN /\ Uncaught("PermissionError")
              /\ UNCHANGED <<model, fileOpens>>
         ELSE /\ fileOpens' = fileOpens + 1
              /\ IF disk.pickled = "garbage"
                   THEN /\ Uncaught("UnpicklingError")
                        /\ UNCHANGED model
                   ELSE /\ model' = disk.pickled
                        /\ pc' = Successor("load")
                        /\ UNCHANGED <<stdout, stderr, exitCode>>
    /\ UNCHANGED <<envVars, runNo, prev, hashSeed, ticker, start_date,
                   ticker_numeric, start_date_numeric, input_data,
                   predictCalls>>

\* Lines 27-28: sys.argv[1] and sys.argv[2]; a missing one is an IndexError
\* outside any try.
ReadArguments ==
    /\ pc = "argv"
    /\ steps' = Append(steps, "argv")
    /\ IF Len(argv) < 1
         THEN /\ Uncaught("IndexError")
              /\ UNCHANGED <<ticker, start_date>>
         ELSE IF Len(argv) < 2
         THEN /\ ticker' = argv[1]
              /\ Uncaught("IndexError")
              /\ UNCHANGED start_date
         ELSE /\ ticker' = argv[1]
              /\ start_date' = argv[2]
              /\ pc' = Successor("argv")
              /\ UNCHANGED <<stdout, stderr, exitCode>>
    /\ UNCHANGED <<envVars, runNo, prev, hashSeed, model, ticker_numeric,
                   start_date_numeric, input_data, fileOpens,
                   predictCalls>>

\* Line 36: (pd.to_datetime(start_date) - pd.Timestamp("1970-01-01"))
\* // pd.Timedelta("1D").  The result is [raised, nan, val]: parsing may
\* raise; a timezone-aware Timestamp minus the naive epoch raises TypeError;
\* NaT minus a Timestamp is NaT and NaT // Timedelta is NaN.
StartDateNumeric(s) ==
    LET dt == ToDatetime(s) IN
    IF dt.kind = "error"
        THEN [raised |-> "ValueError", nan |-> FALSE, val |-> 0]
    ELSE IF dt.kind = "nat"
        THEN [raised |-> "", nan |-> TRUE, val |-> 0]
    ELSE IF dt.tz # Epoch.tz
        THEN [raised |-> "TypeError", nan |-> FALSE, val |-> 0]
    ELSE [raised |-> "", nan |-> FALSE,
          val |-> FloorDiv(dt.value - Epoch.value, Timedelta1D)]

\* Lines 31-56.
Preprocess ==
    /\ pc = "features"
    /\ steps' = Append(steps, "features")
    /\ ticker_numeric' = TickerNumeric(hashSeed, ticker)
    /\ LET r == StartDateNumeric(start_date) IN
       IF r.raised # ""
         THEN /\ PrintError(PreprocessMessage(r.raised))
              /\ SysExit(1)
              /\ UNCHANGED <<start_date_numeric, input_data>>
         ELSE /\ start_date_numeric' = [nan |-> r.nan, val |-> r.val]
              /\ input_data' =
                   DataFrame(Features(ticker_numeric',
                                      [nan |-> r.nan, val |-> r.val]))
              /\ pc' = Successor("features")
              /\ UNCHANGED <<stdout, stderr, exitCode>>
    /\ UNCHANGED <<envVars, runNo, prev, hashSeed, model, ticker, start_date,
                   fileOpens, predictCalls>>

\* Lines 59-64, and the end of the script: status 0.
MakePrediction ==
    /\ pc = "predict"
    /\ steps' = Append(steps, "predict")
    /\ predictCalls' = predictCalls + 1
    /\ IF model = "regressor"
         THEN /\ stdout' = Append(stdout,
                     ResultDocument(ticker, start_date,
                                    Predict(input_data, Len(input_data))))
              /\ UNCHANGED stderr
              /\ exitCode' = 0
              /\ pc' = Successor("predict")
         ELSE /\ PrintError(PredictMessage(
                     IF model = "raising" THEN "XGBoostError" ELSE "TypeError"))
              /\ SysExit(1)
    /\ UNCHANGED <<envVars, runNo, prev, hashSeed, model, ticker, start_date,
                   ticker_numeric, start_date_numeric, input_data, fileOpens>>

\* The script is invoked again with the same arguments against the same
\* files; the new process draws its own hash seed.
Invoke ==
    /\ pc = "done"
    /\ runNo < MaxRuns
    /\ runNo' = runNo + 1
    /\ prev' = [valid |-> TRUE, built |-> input_data # <<>>,
                input_data |-> input_data, stdout |-> stdout,
                stderr |-> stderr, exitCode |-> exitCode]
    /\ \E seed \in Seeds : FreshRun(seed)
    /\ UNCHANGED envVars

Next ==
    \/ DependencyCheck
    \/ ModelExists
    \/ LoadModel
    \/ ReadArguments
    \/ Preprocess
    \/ MakePrediction
    \/ Invoke

Spec == Init /\ [][Next]_vars

----------------------------------------------------------------------------
(* Properties *)

Done == pc = "done"

Range(seq) == {seq[i] : i \in 1..Len(seq)}

IsPrefix(a, b) == Len(a) <= Len(b) /\ a = SubSeq(b, 1, Len(a))

IsErrorObject(doc) == doc.fmt = "json" /\ doc.keys = <<"error">>

OneJsonOn(stream) == Len(stream) = 1 /\ stream[1].fmt = "json"

OneErrorObjectOn(stream) == Len(stream) = 1 /\ IsErrorObject(stream[1])

Order == <<"depcheck", "exists", "load", "argv", "features", "predict">>

\* C1: an invocation with two arguments ends either with status 0, one JSON
\* document on stdout and nothing on stderr, or with status 1, one JSON
\* document on stderr and nothing on stdout.
C1_ExactlyOneOutcome ==
    (Done /\ Len(argv) = 2) =>
        \/ exitCode = 0 /\ OneJsonOn(stdout) /\ stderr = <<>>
        \/ exitCode = 1 /\ OneJsonOn(stderr) /\ stdout = <<>>

\* C2: when the model file exists but cannot be opened or unpickled, the
\* process ends with a JSON error object on stderr and a non-zero status,
\* without reading the arguments or calling the model.
C2_LoadFailureStructured ==
    (Done /\ "load" \in Range(steps) /\ model = NoModel) =>
        /\ OneErrorObjectOn(stderr)
        /\ exitCode = 1
        /\ "argv" \notin Range(steps)
        /\ predictCalls = 0

\* What C3 promises of a run that has ended.
MissingModelOutcome ==
    /\ exitCode = 1
    /\ OneErrorObjectOn(stderr)
    /\ stderr[1].error.detail = model_path
    /\ stdout = <<>>
    /\ fileOpens = 0
    /\ predictCalls = 0

\* C3 as stated: whenever the model file is absent, the run ends with
\* status 1 and one error object on stderr whose message holds the model
\* path, nothing on stdout, the file never opened, the model never called.
C3_MissingModelAlways ==
    (Done /\ ~disk.exists) => MissingModelOutcome

\* C3, amended: the same, when xgboost is importable.
C3_MissingModel ==
    (Done /\ ~disk.exists /\ "xgboost" \in installed) => MissingModelOutcome

C3_Witness ==
    /\ Done /\ ~disk.exists /\ "xgboost" \in installed
    /\ argv = <<>>
    /\ steps = <<"depcheck", "exists">>

\* Start dates that name no date: to_datetime raises on them.
UnparseableDates ==
    {<<"n", "o", "t", "-", "a", "-", "d", "a", "t", "e">>,
     <<"2", "0", "2", "3", "-", "0", "2", "-", "3", "0">>}

LoadableModel == "xgboost" \in installed /\ disk.readable /\ disk.pickled # "garbage"

C5_PredictionFailure ==
    (Done /\ predictCalls > 0 /\ model \in {"raising", "unserialisable"}) =>
        /\ exitCode = 1
        /\ OneErrorObjectOn(stderr)
        /\ stdout = <<>>

C5_Witness ==
    /\ Done /\ predictCalls = 1 /\ model = "unserialisable"
    /\ input_data # <<>>
    /\ exitCode = 1

\* C6: a run that ends with status 0 has written one JSON object with exactly
\* the keys ticker, start_date and prediction; ticker and start_date are the
\* two argument strings as given, prediction the model's values.
C6_PassThrough ==
    (Done /\ exitCode = 0) =>
        /\ Len(argv) >= 2
        /\ OneJsonOn(stdout)
        /\ stdout[1].keys = <<"ticker", "start_date", "prediction">>
        /\ stdout[1].ticker = argv[1]
        /\ stdout[1].start_date = argv[2]
        /\ Len(stdout[1].prediction) = Len(input_data)
        /\ \A i \in 1..Len(input_data) :
               stdout[1].prediction[i] = PredictRow(input_data[i])

C6_Witness ==
    /\ Done /\ exitCode = 0
    /\ argv[1] = <<"A", "A", "P", "L">>
    /\ Len(argv[2]) = 19
    /\ stdout[1].start_date = argv[2]

YearLength(y) == IF IsLeap(y) THEN 366 ELSE 365

RECURSIVE DaysToYear(_)
\* Days from 1970-01-01 to the first of January of year y, counted year by
\* year.
DaysToYear(y) ==
    IF y = 1970 THEN 0
    ELSE IF y > 1970 THEN DaysToYear(y - 1) + YearLength(y - 1)
    ELSE DaysToYear(y + 1) - YearLength(y)

\* Whole days from 1970-01-01 to the calendar day written at the head of s.
CalendarDay(s) ==
    DaysToYear(Num(s, 1, 4)) + DaysBeforeMonth(Num(s, 1, 4), Num(s, 6, 7))
    + Num(s, 9, 10) - 1

NaiveDate(s) == HasIsoDate(s) /\ (Len(s) = 10 \/ (Len(s) = 19 /\ HasIsoTime(s)))

C8_Deterministic ==
    /\ (prev.valid /\ prev.built /\ input_data # <<>>)
           => input_data = prev.input_data
    /\ (prev.valid /\ Done) => stdout = prev.stdout

FeatureNames ==
    <<"ticker", "start_date", "feature_1", "feature_2", "feature_3",
      "feature_4", "feature_5", "feature_6", "feature_7", "feature_8">>

\* C9: the frame handed to the model is one row of ten fields in a fixed
\* order: the ticker's number, the start date's number, then feature_1 to
\* feature_8; the eight are the integer 0 and the ticker's number is an
\* integer from 0 to 10^8 - 1.
C9_FeatureRecord ==
    ("features" \in Range(steps) /\ (pc = "predict" \/ predictCalls > 0)) =>
        /\ Len(input_data) = 1
        /\ Len(input_data[1]) = 10
        /\ \A i \in 1..10 : input_data[1][i].name = FeatureNames[i]
        /\ input_data[1][1].dtype = "int64"
        /\ input_data[1][1].val = ticker_numeric
        /\ ticker_numeric \in 0..(HashModulus - 1)
        /\ input_data[1][2].nan = start_date_numeric.nan
        /\ input_data[1][2].val = start_date_numeric.val
        /\ \A i \in 3..10 :
               /\ input_data[1][i].dtype = "int64"
               /\ ~input_data[1][i].nan
               /\ input_data[1][i].val = 0

C9_Witness ==
    /\ pc = "predict"
    /\ Len(input_data) = 1
    /\ ticker # <<>>
    /\ ticker_numeric > 0
    /\ TickerNumericUnbounded(hashSeed, ticker) >= HashModulus

\* C10: the steps run in the order dependency check, existence check, load,
\* arguments, features, prediction, each at most once; the model is called
\* at most once and only after every earlier step succeeded; a run that stops
\* before the end has status 1, and a status is set only when the run is over.
C10_LinearFailFast ==
    /\ IsPrefix(steps, Order)
    /\ predictCalls <= 1
    /\ predictCalls = 1 => steps = Order /\ model # NoModel /\ input_data # <<>>
    /\ Done => exitCode \in {0, 1}
    /\ (Done /\ (steps # Order \/ stdout = <<>>)) => exitCode = 1
    /\ ~Done => exitCode = NoExit /\ Len(steps) < Len(Order) /\ pc = Order[Len(steps) + 1]

C10_Witness ==
    /\ Done /\ exitCode = 1
    /\ steps = <<"depcheck", "exists", "load", "argv">>
    /\ predictCalls = 0

====
